---- MODULE Spec2Model ----
(***************************************************************************)
(* Model of the admin console: the route guard of App.jsx, the logout of   *)
(* the header, and the three moderation screens AllClients (role=user),    *)
(* BuilderVerification (role=owner) and AllProperty (listings), together   *)
(* with the remote service they talk to.                                   *)
(*                                                                         *)
(* One browser tab is modelled.  A request is a message that first waits   *)
(* for the service (phase "req"), is answered by it (phase "resp") and is  *)
(* then handled by the continuation of the async handler that sent it.     *)
(* React state updates made by a handler are applied when the handler      *)
(* returns (automatic batching), so one handler step is one action.        *)
(***************************************************************************)
EXTENDS Integers, Sequences, FiniteSets, Bags, TLC

\* Bounds of the model.
MaxInFlight == 2      \* requests in flight together
MaxInFlightApp == 1   \* the same, in the specification of the whole application
MaxLogins == 2        \* logins per run; each login gets a fresh token
MaxRedirects == 4     \* redirects followed by one navigation
MaxRecords == 2       \* records of a list the table is studied over
Ids == {1, 2}         \* entity ids of a collection
Editable == {1}       \* ids whose data somebody else changes meanwhile

\* localStorage.getItem answers null for a missing key; tokens are 1..MaxLogins.
Null == 0
Tokens == 1 .. MaxLogins
Truthy(v) == v # Null

\* The values the key "adminInfo" can hold: missing, a profile of a full
\* admin, a profile of a restricted (env) agent, text that is not JSON.
InfoAbsent == "null"
InfoAdmin == "{name:Admin,isEnvAgent:false}"
InfoAgent == "{name:Agent,isEnvAgent:true}"
InfoMalformed == "{name:"
StoredInfos == {InfoAbsent, InfoAdmin, InfoAgent, InfoMalformed}

VARIABLES
    adminToken,     \* localStorage "adminToken"
    adminInfo,      \* localStorage "adminInfo"
    logins,         \* tokens handed out so far
    path,           \* location.pathname: the page that is rendered
    decision,       \* what ProtectedRoute returned at the last navigation
    token,          \* the token the mounted screen's handlers close over
    users,          \* the mounted screen's list state (users / properties)
    loading,        \* the mounted screen's loading flag
    selectedUser,   \* AllClients: the drawer's user
    drawerOpen,     \* AllClients: drawer shown
    srv,            \* the service's collection behind the mounted screen
    net,            \* requests in flight (a bag of messages)
    last,           \* the response handled last by the mounted screen
    dead,           \* tokens for which the mounted screen handled a 401
    search,         \* the text of the search box (search / searchQuery)
    statusFilter,   \* the value of the status select
    csv             \* the text exportCSV hands to the browser in this step

storage == <<adminToken, adminInfo>>
screen == <<token, users, loading, selectedUser, drawerOpen, search, statusFilter>>
vars == <<adminToken, adminInfo, logins, path, decision, token, users, loading,
          selectedUser, drawerOpen, srv, net, last, dead, search, statusFilter, csv>>

-----------------------------------------------------------------------------
\* Text: a string is a sequence of one-character strings.

Undefined == <<"undefined">>      \* the JavaScript value undefined

\* `${v}` in a template literal.
Str(v) == IF v = Undefined THEN <<"u", "n", "d", "e", "f", "i", "n", "e", "d">> ELSE v

LowerChar(c) ==
    CASE c = "A" -> "a" [] c = "B" -> "b" [] c = "O" -> "o" [] c = "U" -> "u"
      [] OTHER -> c

\* String.prototype.toLowerCase
toLowerCase(s) == [i \in 1 .. Len(s) |-> LowerChar(s[i])]

\* formatDate: "N/A" for a missing date, else the date as dd/mm/yyyy (the
\* year stands for the whole date here).
formatDate(dateString) ==
    IF dateString = Undefined \/ dateString = <<>> THEN <<"N", "/", "A">>
    ELSE <<"0", "1", "/", "0", "1", "/">> \o dateString

\* String.prototype.includes
includes(text, q) ==
    \E i \in 0 .. (Len(text) - Len(q)) : SubSeq(text, i + 1, i + Len(q)) = q

-----------------------------------------------------------------------------
\* The routes of App.jsx.

LoginPath == "/admin/login"
AgentHome == "/add-property"
ClientsPath == "/all-clients"
OwnersPath == "/all-owners"
PropertiesPath == "/all-properties"

\* No route open to restricted agents.
AllowEnvAgentNowhere ==
    [p \in {"/dashboard", "/add-property", "/lead-monitoring", "/add-category",
            "/add-subcategory", "/all-owners", "/owners-projects", "/all-clients",
            "/all-properties", "/all-category", "/contact-inquiries"} |-> FALSE]

\* allowEnvAgent of every protected route.
AllowEnvAgent ==
    [p \in {"/dashboard", "/add-property", "/lead-monitoring", "/add-category",
            "/add-subcategory", "/all-owners", "/owners-projects", "/all-clients",
            "/all-properties", "/all-category", "/contact-inquiries"} |->
        p \in {"/add-property", "/lead-monitoring"}]

ProtectedPaths == DOMAIN AllowEnvAgent
UnknownPath == "/no-such-page"
Paths == ProtectedPaths \cup {LoginPath, UnknownPath}

\* The paths the operator opens: the three list screens, and one page of
\* each other kind (public, restricted-agent home, full-admin only, unknown).
Opened == {LoginPath, AgentHome, "/dashboard", ClientsPath, OwnersPath, PropertiesPath,
           UnknownPath}

\* JSON.parse of the stored profile; NoProfile stands for null.
NoProfile == [isNull |-> TRUE, isEnvAgent |-> FALSE]
ParseFails(stored) == stored = InfoMalformed
JSONparse(stored) ==
    IF stored = InfoAgent THEN [isNull |-> FALSE, isEnvAgent |-> TRUE]
    ELSE [isNull |-> FALSE, isEnvAgent |-> FALSE]

getStoredAdminInfo(stored) ==
    IF stored = InfoAbsent THEN NoProfile
    ELSE IF ParseFails(stored) THEN NoProfile
    ELSE JSONparse(stored)

\* What the guard returns: the children, or a <Navigate to=...>.
Render == [kind |-> "children", to |-> ""]
RedirectTo(p) == [kind |-> "Navigate", to |-> p]

\* ProtectedRoute without the check of the restricted agent.
ProtectedRouteAgentsAllowed(stToken, stInfo, allowEnvAgent) ==
    IF ~Truthy(stToken) THEN RedirectTo(LoginPath) ELSE Render

\* ProtectedRoute without the test of the token.
ProtectedRouteTokenUnread(stToken, stInfo, allowEnvAgent) ==
    IF getStoredAdminInfo(stInfo).isEnvAgent /\ ~allowEnvAgent
    THEN RedirectTo(AgentHome)
    ELSE Render

ProtectedRoute(stToken, stInfo, allowEnvAgent) ==
    IF ~Truthy(stToken) THEN RedirectTo(LoginPath)
    ELSE IF getStoredAdminInfo(stInfo).isEnvAgent /\ ~allowEnvAgent
         THEN RedirectTo(AgentHome)
    ELSE Render

\* The element of the route that matches path p.
RouteElement(p, stToken, stInfo) ==
    IF p = LoginPath THEN Render
    ELSE IF p \in ProtectedPaths THEN ProtectedRoute(stToken, stInfo, AllowEnvAgent[p])
    ELSE RedirectTo("/dashboard")

\* The page a navigation to p ends on, following the redirects; "loop" when
\* more than fuel redirects would be needed.
RECURSIVE Land(_, _, _, _)
Land(p, stToken, stInfo, fuel) ==
    LET el == RouteElement(p, stToken, stInfo) IN
    IF el.kind = "children" THEN p
    ELSE IF fuel = 0 THEN "loop"
    ELSE Land(el.to, stToken, stInfo, fuel - 1)

\* The guard's decision for a navigation to p ("none" on an unguarded route).
GuardDecision(p, stToken, stInfo) ==
    IF p \in ProtectedPaths
    THEN LET el == ProtectedRoute(stToken, stInfo, AllowEnvAgent[p]) IN
         IF el.kind = "children" THEN "Render"
         ELSE IF el.to = LoginPath THEN "RedirectToLogin"
         ELSE "RedirectToRestrictedHome"
    ELSE "none"

-----------------------------------------------------------------------------
\* The remote service's data.

Coll(p) ==
    IF p = ClientsPath THEN "user"
    ELSE IF p = OwnersPath THEN "owner"
    ELSE IF p = PropertiesPath THEN "property"
    ELSE "none"

Name0(id) == IF id = 1 THEN <<"A", "n">> ELSE <<"B", "o">>
Name1(id) == IF id = 1 THEN <<"A", "n", "n">> ELSE <<"B", "o", "b">>
Email(id) == IF id = 1 THEN <<"a", "@", "x">> ELSE <<"b", "@", "x">>
Phone(id) == IF id = 1 THEN <<"7", "1">> ELSE Undefined
Role(coll) == IF coll = "user" THEN <<"u", "s", "e", "r">> ELSE <<"o", "w", "n", "e", "r">>

CreatedAt(id) == IF id = 1 THEN <<"2", "0", "2", "4">> ELSE Undefined
\* A user without an address: u.address is undefined.
NoAddress ==
    [absent |-> TRUE, line1 |-> Undefined, city |-> Undefined, state |-> Undefined,
     pincode |-> Undefined]
Address(id) ==
    IF id = 1
    THEN [absent |-> FALSE, line1 |-> <<"L", "1">>, city |-> <<"C">>, state |-> Undefined,
          pincode |-> <<"4">>]
    ELSE NoAddress

\* A user as GET /api/users/list?role=... returns it.
SrvUser(coll, id, blocked) ==
    [id |-> id, name |-> Name0(id), email |-> Email(id), phone |-> Phone(id),
     role |-> Role(coll), isBlocked |-> blocked, createdAt |-> CreatedAt(id),
     address |-> Address(id)]

\* A listing as GET /api/properties/list returns it (title in name).
SrvProperty(id, approved) ==
    [id |-> id, name |-> Name0(id), isApproved |-> approved]

\* The collection the service holds when a screen mounts.
SrvStart(coll) ==
    IF coll = "none" THEN <<>>
    ELSE IF coll = "property" THEN <<SrvProperty(1, FALSE), SrvProperty(2, TRUE)>>
    ELSE <<SrvUser(coll, 1, FALSE), SrvUser(coll, 2, TRUE)>>

IdsOf(recs) == {recs[i].id : i \in DOMAIN recs}
HasId(recs, id) == id \in IdsOf(recs)
Find(recs, id) == recs[CHOOSE i \in DOMAIN recs : recs[i].id = id]

-----------------------------------------------------------------------------
\* Messages.

NoAuth == -1          \* a request sent without an Authorization header
Kinds == {"list", "block", "approve", "disapprove", "delete"}
Statuses == {"ok", "401", "error"}

\* The wrapper shapes a list answer can have; "users" is {users: [...]}.
ListShapes == {"array", "data", "properties", "success.data", "data.data", "none", "null"}
ShapesSent(coll) == IF coll = "property" THEN {"properties", "none"} ELSE {"users", "none"}

\* A request as its handler sends it.  id is the target of a moderation; on
\* a list request it is the listing whose status change caused the re-fetch
\* (0 for the fetch of the mount effect or of a button).  sel and seen are what the click
\* handler closed over: whether the drawer's user is the target, and the
\* record u of the row (or of the drawer) whose button was clicked.
Request(coll, kind, id, bearer, sel, seen) ==
    [owner |-> "live", coll |-> coll, kind |-> kind, id |-> id, bearer |-> bearer,
     sel |-> sel, seen |-> seen, phase |-> "req", status |-> "", shape |-> "",
     payload |-> <<>>, isBlocked |-> FALSE, over |-> FALSE]

NoRecord == [id |-> Null]

\* The request of a refresh sent while `bag` is in flight.  over records
\* that another refresh of the screen was in flight when this one was sent.
ListRequest(coll, id, bearer, bag) ==
    [Request(coll, "list", id, bearer, FALSE, NoRecord) EXCEPT
        !.over = \E x \in BagToSet(bag) : x.owner = "live" /\ x.kind = "list"]

NoMsg == [kind |-> "none", id |-> 0, status |-> "", shape |-> "", isBlocked |-> FALSE,
          seen |-> NoRecord, payload |-> <<>>, over |-> FALSE, before |-> <<>>]

\* What is remembered of a handled answer: the answer, and the list state
\* the continuation found.
Handled(m, before) ==
    [kind |-> m.kind, id |-> m.id, status |-> m.status, shape |-> m.shape,
     isBlocked |-> m.isBlocked, seen |-> m.seen, payload |-> m.payload,
     over |-> m.over, before |-> before]

InFlight == BagCardinality(net)
Msgs == BagToSet(net)
Send(bag, m) == bag (+) SetToBag({m})
Take(bag, m) == bag (-) SetToBag({m})

-----------------------------------------------------------------------------
\* Mounting and unmounting a page.

NoUser == NoRecord          \* selectedUser = null

\* A request whose component was unmounted: its continuation still runs,
\* but its state updates do nothing.
Disowned(m) ==
    [m EXCEPT !.owner = "orphan", !.sel = FALSE, !.seen = NoRecord,
              !.payload = <<>>, !.shape = "", !.isBlocked = FALSE, !.over = FALSE]

\* Of the continuations of an unmounted component only those of fetchUsers
\* and fetchOwners still do something (a 401 removes the stored token);
\* the other disowned requests are not followed further.
StillMatters(m) ==
    /\ m.kind = "list"
    /\ m.coll # "property"
    /\ m.phase = "req" \/ m.status = "401"

\* What stays in flight of `bag` when the mounted page unmounts.
RECURSIVE Relabel(_)
Relabel(bag) ==
    IF BagToSet(bag) = {} THEN EmptyBag
    ELSE LET m == CHOOSE x \in BagToSet(bag) : TRUE
             d == Disowned(m)
             rest == Relabel(Take(bag, m))
         IN IF StillMatters(d) THEN Send(rest, d) ELSE rest

\* useState("All") in AllClients, useState("all") in BuilderVerification.
DefaultFilter(p) == IF p = OwnersPath THEN "all" ELSE "All"

\* No export is being handed to the browser.
NoCsv == <<"none">>

\* The page at p mounts with `bag` in flight: state is initialised and the
\* mount effect runs (the first fetch of the three list screens).
MountAt(p, bag, cap) ==
    /\ users' = <<>>
    /\ search' = <<>>
    /\ statusFilter' = DefaultFilter(p)
    /\ selectedUser' = NoUser
    /\ drawerOpen' = FALSE
    /\ srv' = SrvStart(Coll(p))
    /\ last' = NoMsg
    /\ dead' = {}
    /\ token' = IF Coll(p) = "none" THEN Null ELSE adminToken'
    /\ IF Coll(p) = "property"
       THEN /\ loading' = TRUE
            /\ net' = Send(bag, Request("property", "list", 0, NoAuth, FALSE, NoRecord))
       ELSE IF Coll(p) # "none" /\ Truthy(adminToken')
       THEN /\ loading' = TRUE
            /\ net' = Send(bag, Request(Coll(p), "list", 0, adminToken', FALSE, NoRecord))
       ELSE /\ loading' = FALSE
            /\ net' = bag
    /\ BagCardinality(net') <= cap

-----------------------------------------------------------------------------
\* Navigation, login, logout.

\* The operator opens path p (a link of the sidebar, or the address bar).
Navigate(p, cap) ==
    /\ Land(p, adminToken, adminInfo, MaxRedirects) # "loop"
    /\ decision' = GuardDecision(p, adminToken, adminInfo)
    /\ path' = Land(p, adminToken, adminInfo, MaxRedirects)
    /\ UNCHANGED <<adminToken, adminInfo, logins, csv>>
    /\ IF p = path /\ path' = path
       THEN /\ UNCHANGED <<token, users, loading, selectedUser, drawerOpen, srv, net, dead,
                           search, statusFilter>>
            /\ last' = NoMsg
       ELSE MountAt(path', Relabel(net), cap)

\* AdminLogin stores the token and the profile of the admin who logged in.
Login(info) ==
    /\ path = LoginPath
    /\ logins < MaxLogins
    /\ logins' = logins + 1
    /\ adminToken' = logins + 1
    /\ adminInfo' = info
    /\ UNCHANGED <<search, statusFilter, csv>>
    /\ UNCHANGED <<path, decision, token, users, loading, selectedUser, drawerOpen,
                   srv, net, dead>>
    /\ last' = NoMsg

\* Header: handleLogout removes the stored session and loads the login page
\* (window.location.href): the requests in flight are abandoned.
handleLogout ==
    /\ path # LoginPath
    /\ adminToken' = Null
    /\ adminInfo' = InfoAbsent
    /\ path' = LoginPath
    /\ decision' = "none"
    /\ UNCHANGED <<logins, csv>>
    /\ MountAt(LoginPath, EmptyBag, 0)

-----------------------------------------------------------------------------
\* The remote service.

\* The collection after the service has carried out request m.
Applied(recs, m) ==
    IF m.kind = "block"
    THEN [i \in DOMAIN recs |->
            IF recs[i].id = m.id THEN [recs[i] EXCEPT !.isBlocked = ~recs[i].isBlocked]
            ELSE recs[i]]
    ELSE IF m.kind \in {"approve", "disapprove"}
    THEN [i \in DOMAIN recs |->
            IF recs[i].id = m.id THEN [recs[i] EXCEPT !.isApproved = (m.kind = "approve")]
            ELSE recs[i]]
    ELSE IF m.kind = "delete"
    THEN LET Keep(r) == r.id # m.id IN SelectSeq(recs, Keep)
    ELSE recs

\* The answer to m with the given status, the collection being recs.
Answer(m, status, shape, recs) ==
    [m EXCEPT !.phase = "resp", !.status = status, !.shape = shape,
              !.payload = IF m.kind = "list" /\ status = "ok" /\ m.owner = "live"
                          THEN recs ELSE <<>>,
              !.isBlocked = IF m.kind = "block" /\ status = "ok" /\ m.owner = "live"
                            THEN Find(recs, m.id).isBlocked ELSE FALSE]

\* The service answers request m.  It is opaque: any request may be answered
\* with a 401 or another failure; a success carries the request out on the
\* collection (a moderation of an id the collection does not hold fails).
Serve(m, status, shape) ==
    /\ m \in Msgs
    /\ m.phase = "req"
    /\ shape \in (IF m.kind = "list" /\ status = "ok" /\ m.owner = "live"
                  THEN ShapesSent(m.coll) ELSE {""})
    /\ LET here == m.coll = Coll(path)
           recs == IF here /\ status = "ok" THEN Applied(srv, m) ELSE srv
           resp == Answer(m, status, shape, recs)
       IN /\ (status = "ok" /\ m.kind # "list" /\ m.owner = "live") => HasId(srv, m.id)
          /\ srv' = recs
          /\ net' = IF StillMatters(resp) \/ m.owner = "live"
                    THEN Send(Take(net, m), resp) ELSE Take(net, m)
    /\ UNCHANGED <<adminToken, adminInfo, logins, search, statusFilter, csv,
                   path, decision, token, users, loading,
                   selectedUser, drawerOpen, dead>>
    /\ last' = NoMsg

\* Somebody else changes a record's data (a user or an owner edits the
\* profile): the name goes from Name0 to Name1.
ServiceEdit(id) ==
    /\ Coll(path) \in {"user", "owner"}
    /\ HasId(srv, id)
    /\ Find(srv, id).name = Name0(id)
    /\ id \in Editable
    /\ srv' = [i \in DOMAIN srv |->
                 IF srv[i].id = id THEN [srv[i] EXCEPT !.name = Name1(id)] ELSE srv[i]]
    /\ UNCHANGED <<adminToken, adminInfo, logins, search, statusFilter, csv,
                   path, decision, token, users, loading,
                   selectedUser, drawerOpen, net, dead>>
    /\ last' = NoMsg

\* Somebody else removes a user or an owner from the service's collection.
ServiceRemove(id) ==
    /\ Coll(path) \in {"user", "owner"}
    /\ HasId(srv, id)
    /\ srv' = LET Keep(r) == r.id # id IN SelectSeq(srv, Keep)
    /\ UNCHANGED <<adminToken, adminInfo, logins, search, statusFilter, csv,
                   path, decision, token, users, loading,
                   selectedUser, drawerOpen, net, dead>>
    /\ last' = NoMsg

\* fetchUsers / fetchOwners of an unmounted component continue with the
\* answer m: the state updates do nothing, a 401 still removes the token.
DeliverDisowned(m) ==
    /\ m \in Msgs
    /\ m.phase = "resp"
    /\ m.owner # "live"
    /\ net' = Take(net, m)
    /\ adminToken' = IF m.kind = "list" /\ m.coll # "property" /\ m.status = "401"
                         THEN Null ELSE adminToken
    /\ UNCHANGED <<adminInfo, logins, search, statusFilter, csv,
                   path, decision, token, users, loading,
                   selectedUser, drawerOpen, srv, dead>>
    /\ last' = NoMsg

\* The tokens a handled 401 has reported invalid.
Reported(m) == IF m.status = "401" /\ m.bearer \in Tokens THEN dead \cup {m.bearer} ELSE dead

-----------------------------------------------------------------------------
\* AllClients (users of role "user").

StatusOf(isBlocked) == IF isBlocked THEN "Blocked" ELSE "Active"

\* fetchUsers: the record kept for a user of the payload.
ToClient(u) ==
    [id |-> u.id, name |-> u.name, email |-> u.email, phone |-> u.phone,
     address |-> u.address, role |-> u.role, status |-> StatusOf(u.isBlocked),
     joinedAt |-> formatDate(u.createdAt)]

\* The map without the test of the id: every record gets the status.
PatchStatusAll(prevUsers, userId, newStatus) ==
    [i \in DOMAIN prevUsers |-> [prevUsers[i] EXCEPT !.status = newStatus]]

\* The flag cleared by a success only.
LoadingAfterFetchFailed(m) == m.status # "ok"

\* setLoading(false): fetchUsers, fetchOwners and fetchProperties clear the
\* flag after the answer m on every path, the catch block included.
LoadingAfterFetch(m) == FALSE

\* The record put into the list when the list does not hold the id.
PatchStatusUpsert(prevUsers, userId, newStatus) ==
    IF HasId(prevUsers, userId)
    THEN [i \in DOMAIN prevUsers |->
            IF prevUsers[i].id = userId THEN [prevUsers[i] EXCEPT !.status = newStatus]
            ELSE prevUsers[i]]
    ELSE Append(prevUsers, [id |-> userId, status |-> newStatus])

\* toggleBlock: prevUsers.map(u => u.id === userId ? {...u, status} : u)
PatchStatus(prevUsers, userId, newStatus) ==
    [i \in DOMAIN prevUsers |->
        IF prevUsers[i].id = userId THEN [prevUsers[i] EXCEPT !.status = newStatus]
        ELSE prevUsers[i]]

\* The status computed by negating the cached one, not read from the answer.
ClientsAfterBlockNegated(prevUsers, m) ==
    [i \in DOMAIN prevUsers |->
        IF prevUsers[i].id = m.id
        THEN [prevUsers[i] EXCEPT !.status = StatusOf(prevUsers[i].status = "Active")]
        ELSE prevUsers[i]]

\* The list state after toggleBlock's request m succeeded.
ClientsAfterBlock(prevUsers, m) == PatchStatus(prevUsers, m.id, StatusOf(m.isBlocked))

\* The callback with the status option left unread.
ClientsKeepAnyStatus(u, srch, filter) ==
    (srch # <<>>) =>
        includes(toLowerCase(Str(u.name) \o <<" ">> \o Str(u.email) \o <<" ">>
                             \o Str(u.phone) \o <<" ">> \o Str(u.role)),
                 toLowerCase(srch))

\* The callback of filtered's users.filter: TRUE keeps the row.
ClientsKeep(u, srch, filter) ==
    LET q == toLowerCase(srch)
        text == toLowerCase(Str(u.name) \o <<" ">> \o Str(u.email) \o <<" ">>
                            \o Str(u.phone) \o <<" ">> \o Str(u.role))
    IN /\ (q # <<>>) => includes(text, q)
       /\ ~(filter # "All" /\ u.status # filter)

\* The kept rows listed last to first.
filteredNewestFirst(us, srch, filter) ==
    LET Keep(u) == ClientsKeep(u, srch, filter)
        kept == SelectSeq(us, Keep)
    IN [i \in 1 .. Len(kept) |-> kept[Len(kept) + 1 - i]]

\* filtered: the rows shown for the search text and the status filter.
filtered(us, srch, filter) ==
    LET Keep(u) == ClientsKeep(u, srch, filter)
    IN SelectSeq(us, Keep)

\* The records of the answer added to the list, not put in its place.
ClientsAfterFetchAppended(prevUsers, m) ==
    IF m.status = "ok" /\ m.shape = "users"
    THEN prevUsers \o [i \in DOMAIN m.payload |-> ToClient(m.payload[i])]
    ELSE prevUsers

\* The list state after fetchUsers' request m was answered: data.users.map(...)
\* on success (an answer without users makes the map throw, and the catch
\* block leaves the list alone).
ClientsAfterFetch(prevUsers, m) ==
    IF m.status = "ok" /\ m.shape = "users"
    THEN [i \in DOMAIN m.payload |-> ToClient(m.payload[i])]
    ELSE prevUsers

\* The Refresh button (disabled while loading) calls fetchUsers.
fetchUsers(cap) ==
    /\ path = ClientsPath
    /\ ~loading
    /\ IF ~Truthy(token)
       THEN UNCHANGED <<loading, net>>
       ELSE /\ InFlight < cap
            /\ loading' = TRUE
            /\ net' = Send(net, Request("user", "list", 0, token, FALSE, NoRecord))
    /\ UNCHANGED <<adminToken, adminInfo, logins, search, statusFilter, csv,
                   path, decision, token, users,
                   selectedUser, drawerOpen, srv, dead>>
    /\ last' = NoMsg

\* fetchUsers continues with the answer m.
fetchUsersDone(m) ==
    /\ path = ClientsPath
    /\ m \in Msgs
    /\ m.owner = "live" /\ m.phase = "resp" /\ m.kind = "list"
    /\ net' = Take(net, m)
    /\ last' = Handled(m, users)
    /\ dead' = Reported(m)
    /\ loading' = LoadingAfterFetch(m)
    /\ users' = ClientsAfterFetch(users, m)
    /\ adminToken' = IF m.status = "401" THEN Null ELSE adminToken
    /\ UNCHANGED <<adminInfo, logins, search, statusFilter, csv,
                   path, decision, token, selectedUser, drawerOpen, srv>>

\* A Block / Unblock button calls toggleBlock(userId): the button of a table
\* row (the table is hidden while loading) or the button of the open drawer.
ClientsToggleBlock(userId, cap) ==
    /\ path = ClientsPath
    /\ \/ ~loading /\ HasId(users, userId)
       \/ drawerOpen /\ selectedUser # NoUser /\ selectedUser.id = userId
    /\ IF ~Truthy(userId) \/ ~Truthy(token)
       THEN UNCHANGED net
       ELSE /\ InFlight < cap
            /\ net' = Send(net, Request("user", "block", userId, token,
                                        selectedUser # NoUser /\ selectedUser.id = userId,
                                        IF ~loading /\ HasId(users, userId)
                                        THEN Find(users, userId) ELSE selectedUser))
    /\ UNCHANGED <<adminToken, adminInfo, logins, search, statusFilter, csv,
                   path, decision, token, users, loading,
                   selectedUser, drawerOpen, srv, dead>>
    /\ last' = NoMsg

\* toggleBlock continues with the answer m.
ClientsToggleBlockDone(m) ==
    /\ path = ClientsPath
    /\ m \in Msgs
    /\ m.owner = "live" /\ m.phase = "resp" /\ m.kind = "block"
    /\ net' = Take(net, m)
    /\ last' = Handled(m, users)
    /\ dead' = Reported(m)
    /\ users' = IF m.status = "ok" THEN ClientsAfterBlock(users, m) ELSE users
    /\ selectedUser' = IF m.status = "ok" /\ m.sel
                       THEN [selectedUser EXCEPT !.status = StatusOf(m.isBlocked)]
                       ELSE selectedUser
    /\ UNCHANGED <<adminToken, adminInfo, logins, search, statusFilter, csv,
                   path, decision, token, loading,
                   drawerOpen, srv>>

\* The View button of a table row.
openDrawer(i) ==
    /\ path = ClientsPath
    /\ ~loading
    /\ i \in DOMAIN users
    /\ selectedUser' = users[i]
    /\ drawerOpen' = TRUE
    /\ UNCHANGED <<adminToken, adminInfo, logins, search, statusFilter, csv,
                   path, decision, token, users, loading,
                   srv, net, dead>>
    /\ last' = NoMsg

closeDrawer ==
    /\ path = ClientsPath
    /\ drawerOpen
    /\ drawerOpen' = FALSE
    /\ UNCHANGED <<adminToken, adminInfo, logins, search, statusFilter, csv,
                   path, decision, token, users, loading,
                   selectedUser, srv, net, dead>>
    /\ last' = NoMsg

-----------------------------------------------------------------------------
\* BuilderVerification (users of role "owner").  The token is read from
\* localStorage at every render, so a handler holds the token of the last
\* render; while loading the screen shows only the loader.

\* fetchOwners: the record kept for an owner of the payload.
ToOwner(u) ==
    [id |-> u.id, name |-> u.name, email |-> u.email, phone |-> u.phone,
     address |-> u.address, role |-> u.role, isBlocked |-> u.isBlocked,
     joinedAt |-> formatDate(u.createdAt)]

\* toggleBlock: prevUsers.map(u => u.id === userId ? {...u, isBlocked} : u)
PatchIsBlocked(prevUsers, userId, newIsBlocked) ==
    [i \in DOMAIN prevUsers |->
        IF prevUsers[i].id = userId THEN [prevUsers[i] EXCEPT !.isBlocked = newIsBlocked]
        ELSE prevUsers[i]]

\* The patch written over the row's record as the click saw it.
OwnersAfterBlockStale(prevUsers, m) ==
    [i \in DOMAIN prevUsers |->
        IF prevUsers[i].id = m.id THEN [m.seen EXCEPT !.isBlocked = m.isBlocked]
        ELSE prevUsers[i]]

\* The list state after toggleBlock's request m succeeded.
OwnersAfterBlock(prevUsers, m) == PatchIsBlocked(prevUsers, m.id, m.isBlocked)

\* The callback of filteredOwners' users.filter: TRUE keeps the row.
OwnersKeep(user, searchQuery, filter) ==
    LET textToSearch == toLowerCase(Str(user.name) \o <<" ">> \o Str(user.email) \o <<" ">>
                                    \o Str(user.phone) \o <<" ">> \o Str(user.role))
    IN /\ ~(filter = "active" /\ user.isBlocked)
       /\ ~(filter = "blocked" /\ ~user.isBlocked)
       /\ (searchQuery # <<>>) => includes(textToSearch, toLowerCase(searchQuery))

\* filteredOwners: the rows shown for the search text and the status filter.
filteredOwners(us, searchQuery, filter) ==
    LET Keep(user) == OwnersKeep(user, searchQuery, filter)
    IN SelectSeq(us, Keep)

\* The list emptied by an answer that is not a success.
OwnersAfterFetchCleared(prevUsers, m) ==
    IF m.status = "ok" /\ m.shape = "users"
    THEN [i \in DOMAIN m.payload |-> ToOwner(m.payload[i])]
    ELSE <<>>

\* The list state after fetchOwners' request m was answered.
OwnersAfterFetch(prevUsers, m) ==
    IF m.status = "ok" /\ m.shape = "users"
    THEN [i \in DOMAIN m.payload |-> ToOwner(m.payload[i])]
    ELSE prevUsers

\* The Sync button calls fetchOwners.
fetchOwners(cap) ==
    /\ path = OwnersPath
    /\ ~loading
    /\ IF ~Truthy(token)
       THEN UNCHANGED <<loading, net>>
       ELSE /\ InFlight < cap
            /\ loading' = TRUE
            /\ net' = Send(net, Request("owner", "list", 0, token, FALSE, NoRecord))
    /\ token' = IF Truthy(token) THEN adminToken ELSE token
    /\ UNCHANGED <<adminToken, adminInfo, logins, search, statusFilter, csv,
                   path, decision, users,
                   selectedUser, drawerOpen, srv, dead>>
    /\ last' = NoMsg

\* fetchOwners continues with the answer m.
fetchOwnersDone(m) ==
    /\ path = OwnersPath
    /\ m \in Msgs
    /\ m.owner = "live" /\ m.phase = "resp" /\ m.kind = "list"
    /\ net' = Take(net, m)
    /\ last' = Handled(m, users)
    /\ dead' = Reported(m)
    /\ loading' = LoadingAfterFetch(m)
    /\ users' = OwnersAfterFetch(users, m)
    /\ adminToken' = IF m.status = "401" THEN Null ELSE adminToken
    /\ token' = IF loading \/ (m.status = "ok" /\ m.shape = "users") THEN adminToken' ELSE token
    /\ UNCHANGED <<adminInfo, logins, search, statusFilter, csv,
                   path, decision, selectedUser, drawerOpen, srv>>

\* The Block / Unblock button of a table row calls toggleBlock(u.id).
OwnersToggleBlock(userId, cap) ==
    /\ path = OwnersPath
    /\ ~loading
    /\ HasId(users, userId)
    /\ IF ~Truthy(token)
       THEN UNCHANGED net
       ELSE /\ InFlight < cap
            /\ net' = Send(net, Request("owner", "block", userId, token, FALSE, Find(users, userId)))
    /\ UNCHANGED <<adminToken, adminInfo, logins, search, statusFilter, csv,
                   path, decision, token, users, loading,
                   selectedUser, drawerOpen, srv, dead>>
    /\ last' = NoMsg

\* toggleBlock continues with the answer m.
OwnersToggleBlockDone(m) ==
    /\ path = OwnersPath
    /\ m \in Msgs
    /\ m.owner = "live" /\ m.phase = "resp" /\ m.kind = "block"
    /\ net' = Take(net, m)
    /\ last' = Handled(m, users)
    /\ dead' = Reported(m)
    /\ users' = IF m.status = "ok" THEN OwnersAfterBlock(users, m) ELSE users
    /\ token' = IF m.status = "ok" THEN adminToken ELSE token
    /\ UNCHANGED <<adminToken, adminInfo, logins, search, statusFilter, csv,
                   path, decision, loading,
                   selectedUser, drawerOpen, srv>>

-----------------------------------------------------------------------------
\* AllProperty (listings).  The list is fetched without a credential; the
\* token is read from localStorage at every render; the cards are hidden
\* while loading, the Reload button is not.

\* extractList: the list inside an answer of the given wrapper shape.
extractList(shape, payload) ==
    IF shape = "null" THEN <<>>
    ELSE IF shape = "array" THEN payload
    ELSE IF shape = "data" THEN payload
    ELSE IF shape = "properties" THEN payload
    ELSE IF shape = "success.data" THEN payload
    ELSE IF shape = "data.data" THEN payload
    ELSE <<>>

\* The first card removed, whatever its id.
WithoutIdFirst(prev, id) == IF prev = <<>> THEN <<>> ELSE Tail(prev)

\* handleDelete: prev.filter(p => p._id !== id)
WithoutId(prev, id) == LET Keep(r) == r.id # id IN SelectSeq(prev, Keep)

\* The answer merged into the list: the records it does not hold are kept.
PropertiesAfterFetchMerged(prev, m) ==
    IF m.status = "ok"
    THEN LET got == extractList(m.shape, m.payload)
             Gone(r) == ~HasId(got, r.id)
         IN got \o SelectSeq(prev, Gone)
    ELSE prev

\* The answer to a refresh sent while another was in flight is dropped.
PropertiesAfterFetchFirstWins(prev, m) ==
    IF m.status = "ok" /\ ~m.over THEN extractList(m.shape, m.payload) ELSE prev

\* The list state after fetchProperties' request m was answered.
PropertiesAfterFetch(prev, m) ==
    IF m.status = "ok" THEN extractList(m.shape, m.payload) ELSE prev

\* The Reload button calls fetchProperties.
fetchProperties(cap) ==
    /\ path = PropertiesPath
    /\ InFlight < cap
    /\ loading' = TRUE
    /\ net' = Send(net, ListRequest("property", 0, NoAuth, net))
    /\ token' = IF ~loading THEN adminToken ELSE token
    /\ UNCHANGED <<adminToken, adminInfo, logins, search, statusFilter, csv,
                   path, decision, users,
                   selectedUser, drawerOpen, srv, dead>>
    /\ last' = NoMsg

\* fetchProperties continues with the answer m.
fetchPropertiesDone(m) ==
    /\ path = PropertiesPath
    /\ m \in Msgs
    /\ m.owner = "live" /\ m.phase = "resp" /\ m.kind = "list"
    /\ net' = Take(net, m)
    /\ last' = Handled(m, users)
    /\ dead' = Reported(m)
    /\ loading' = LoadingAfterFetch(m)
    /\ users' = PropertiesAfterFetch(users, m)
    /\ token' = IF loading \/ m.status = "ok" THEN adminToken ELSE token
    /\ UNCHANGED <<adminToken, adminInfo, logins, search, statusFilter, csv,
                   path, decision, selectedUser,
                   drawerOpen, srv>>

\* The DELETE button of a card calls handleDelete(id); the operator confirms.
handleDelete(id, cap) ==
    /\ path = PropertiesPath
    /\ ~loading
    /\ HasId(users, id)
    /\ InFlight < cap
    /\ net' = Send(net, Request("property", "delete", id, token, FALSE, Find(users, id)))
    /\ UNCHANGED <<adminToken, adminInfo, logins, search, statusFilter, csv,
                   path, decision, token, users, loading,
                   selectedUser, drawerOpen, srv, dead>>
    /\ last' = NoMsg

\* handleDelete continues with the answer m.
handleDeleteDone(m) ==
    /\ path = PropertiesPath
    /\ m \in Msgs
    /\ m.owner = "live" /\ m.phase = "resp" /\ m.kind = "delete"
    /\ net' = Take(net, m)
    /\ last' = Handled(m, users)
    /\ dead' = Reported(m)
    /\ users' = IF m.status = "ok" THEN WithoutId(users, m.id) ELSE users
    /\ token' = IF m.status = "ok" THEN adminToken ELSE token
    /\ UNCHANGED <<adminToken, adminInfo, logins, search, statusFilter, csv,
                   path, decision, loading,
                   selectedUser, drawerOpen, srv>>

\* The PUBLISH / UNPUBLISH button of a card calls toggleStatus(id, status):
\* "disapprove" on a published listing, "approve" on a pending one.
toggleStatus(id, cap) ==
    /\ path = PropertiesPath
    /\ ~loading
    /\ HasId(users, id)
    /\ InFlight < cap
    /\ net' = Send(net, Request("property",
                                IF Find(users, id).isApproved THEN "disapprove" ELSE "approve",
                                id, token, FALSE, Find(users, id)))
    /\ UNCHANGED <<adminToken, adminInfo, logins, search, statusFilter, csv,
                   path, decision, token, users, loading,
                   selectedUser, drawerOpen, srv, dead>>
    /\ last' = NoMsg

\* The re-fetch started whatever the answer was.
AfterToggleStatusAlways(bag, m) ==
    Send(Take(bag, m), ListRequest("property", m.id, NoAuth, bag))

\* A failed status change sent again by the handler itself.
AfterToggleStatusRetry(bag, m) ==
    IF m.status = "ok"
    THEN Send(Take(bag, m), ListRequest("property", m.id, NoAuth, bag))
    ELSE Send(Take(bag, m), Request(m.coll, m.kind, m.id, m.bearer, m.sel, m.seen))

\* What is in flight after toggleStatus's request m was answered: on
\* success the handler calls fetchProperties.
AfterToggleStatus(bag, m) ==
    IF m.status = "ok"
    THEN Send(Take(bag, m), ListRequest("property", m.id, NoAuth, bag))
    ELSE Take(bag, m)

\* toggleStatus continues with the answer m.
toggleStatusDone(m) ==
    /\ path = PropertiesPath
    /\ m \in Msgs
    /\ m.owner = "live" /\ m.phase = "resp" /\ m.kind \in {"approve", "disapprove"}
    /\ net' = AfterToggleStatus(net, m)
    /\ last' = Handled(m, users)
    /\ dead' = Reported(m)
    /\ loading' = IF m.status = "ok" THEN TRUE ELSE loading
    /\ token' = IF m.status = "ok" /\ ~loading THEN adminToken ELSE token
    /\ UNCHANGED <<adminToken, adminInfo, logins, search, statusFilter, csv,
                   path, decision, users,
                   selectedUser, drawerOpen, srv>>

-----------------------------------------------------------------------------
\* AllClients / BuilderVerification: search box, status filter, CSV export.

\* The texts typed into the search box.
Queries ==
    {<<>>, <<"2">>, <<"B">>, <<"a", "n">>, <<"n", " ", "a">>, <<"u", "n", "d">>, <<"z">>}

\* The options of the status <select> of the page at p.
FilterOptions(p) ==
    IF p = OwnersPath THEN {"all", "active", "blocked"} ELSE {"All", "Active", "Blocked"}

\* The rows the page at `path` shows.
Shown ==
    IF path = OwnersPath THEN filteredOwners(users, search, statusFilter)
    ELSE filtered(users, search, statusFilter)

\* a || b for texts: b when a is undefined or empty.
OrElse(a, b) == IF a = Undefined \/ a = <<>> THEN b ELSE a

\* address?.field
Opt(address, field) == IF address.absent THEN Undefined ELSE address[field]

\* The status of a row as text.
StatusText(status) ==
    IF status = "Active" THEN <<"A", "c", "t", "i", "v", "e">> ELSE <<"B", "l", "o", "c", "k", "e", "d">>

\* The header row of exportCSV.
HeaderRow ==
   <<<<"N", "a", "m", "e">>,
     <<"E", "m", "a", "i", "l">>,
     <<"P", "h", "o", "n", "e">>,
     <<"R", "o", "l", "e">>,
     <<"S", "t", "a", "t", "u", "s">>,
     <<"J", "o", "i", "n", "e", "d", " ", "D", "a", "t", "e">>,
     <<"A", "d", "d", "r", "e", "s", "s", " ", "L", "i", "n", "e", " ", "1">>,
     <<"C", "i", "t", "y">>,
     <<"S", "t", "a", "t", "e">>,
     <<"P", "i", "n", "c", "o", "d", "e">>>>

\* The cells exportCSV makes of one row of the table.
Cells(u) ==
    <<u.name, u.email, OrElse(u.phone, <<"N", "/", "A">>), u.role, StatusText(u.status),
      u.joinedAt, OrElse(Opt(u.address, "line1"), <<>>), OrElse(Opt(u.address, "city"), <<>>),
      OrElse(Opt(u.address, "state"), <<>>), OrElse(Opt(u.address, "pincode"), <<>>)>>

\* The rows of the export: the header, then one row per shown record.
ExportRows(shown) == <<HeaderRow>> \o [i \in DOMAIN shown |-> Cells(shown[i])]

\* String(c).replace(/"/g, '""') with the quotes kept single.
EscapeKeepQuotes(c) == Str(c)

\* String(c).replace(/"/g, '""')
RECURSIVE Escape(_)
Escape(c) ==
    LET t == Str(c)
    IN IF t = <<>> THEN <<>>
       ELSE (IF Head(t) = "\"" THEN <<"\"", "\"">> ELSE <<Head(t)>>) \o Escape(Tail(t))

\* `"${...}"`
Quoted(c) == <<"\"">> \o Escape(c) \o <<"\"">>

\* Array.prototype.join
RECURSIVE Join(_, _)
Join(parts, sep) ==
    IF parts = <<>> THEN <<>>
    ELSE IF Len(parts) = 1 THEN parts[1]
    ELSE parts[1] \o sep \o Join(Tail(parts), sep)

\* The text exportCSV puts into the Blob.
CsvText(rows) ==
    Join([r \in DOMAIN rows |-> Join([c \in DOMAIN rows[r] |-> Quoted(rows[r][c])], <<",">>)],
         <<"\n">>)

\* The export made of every cached record, hidden ones included.
ExportOfAll(us, shown) == CsvText(ExportRows(us))

\* The export of the rows the table shows.
ExportOf(us, shown) == CsvText(ExportRows(shown))

setSearch(q) ==
    /\ path \in {ClientsPath, OwnersPath}
    /\ ~(path = OwnersPath /\ loading)
    /\ search' = q
    /\ csv' = NoCsv
    /\ UNCHANGED <<adminToken, adminInfo, logins, path, decision, token, users, loading,
                   selectedUser, drawerOpen, srv, net, last, dead, statusFilter>>

setStatusFilter(f) ==
    /\ path \in {ClientsPath, OwnersPath}
    /\ ~(path = OwnersPath /\ loading)
    /\ f \in FilterOptions(path)
    /\ statusFilter' = f
    /\ csv' = NoCsv
    /\ UNCHANGED <<adminToken, adminInfo, logins, path, decision, token, users, loading,
                   selectedUser, drawerOpen, srv, net, last, dead, search>>

\* The reset button of AllClients.
resetFilters ==
    /\ path = ClientsPath
    /\ search' = <<>>
    /\ statusFilter' = "All"
    /\ csv' = NoCsv
    /\ UNCHANGED <<adminToken, adminInfo, logins, path, decision, token, users, loading,
                   selectedUser, drawerOpen, srv, net, last, dead>>

\* The Export button of AllClients: the text is handed to the browser as
\* clients_export.csv.
exportCSV ==
    /\ path = ClientsPath
    /\ csv' = ExportOf(users, Shown)
    /\ UNCHANGED <<adminToken, adminInfo, logins, path, decision, token, users, loading,
                   selectedUser, drawerOpen, srv, net, last, dead, search, statusFilter>>

-----------------------------------------------------------------------------
\* The specification.

\* The application starts on the login page with a stored session of any kind.
Init ==
    /\ \E s \in {<<Null, InfoAbsent>>, <<1, InfoAdmin>>, <<1, InfoAgent>>, <<1, InfoMalformed>>} :
          /\ adminToken = s[1]
          /\ adminInfo = s[2]
    /\ logins = IF adminToken = Null THEN 0 ELSE 1
    /\ path = LoginPath
    /\ decision = "none"
    /\ token = Null
    /\ users = <<>>
    /\ loading = FALSE
    /\ selectedUser = NoUser
    /\ drawerOpen = FALSE
    /\ srv = <<>>
    /\ net = EmptyBag
    /\ last = NoMsg
    /\ dead = {}
    /\ search = <<>>
    /\ statusFilter = DefaultFilter(path)
    /\ csv = NoCsv

Next ==
    \/ \E p \in Opened : Navigate(p, MaxInFlightApp)
    \/ \E info \in {InfoAdmin, InfoAgent} : Login(info)
    \/ handleLogout
    \/ \E m \in Msgs, status \in Statuses, shape \in ListShapes \cup {"users", ""} :
          Serve(m, status, shape)
    \/ \E id \in Ids : ServiceEdit(id)
    \/ \E m \in Msgs : DeliverDisowned(m)
    \/ fetchUsers(MaxInFlightApp)
    \/ \E m \in Msgs : fetchUsersDone(m)
    \/ \E id \in Ids : ClientsToggleBlock(id, MaxInFlightApp)
    \/ \E m \in Msgs : ClientsToggleBlockDone(m)
    \/ \E i \in 1 .. Cardinality(Ids) : openDrawer(i)
    \/ closeDrawer
    \/ fetchOwners(MaxInFlightApp)
    \/ \E m \in Msgs : fetchOwnersDone(m)
    \/ \E id \in Ids : OwnersToggleBlock(id, MaxInFlightApp)
    \/ \E m \in Msgs : OwnersToggleBlockDone(m)
    \/ fetchProperties(MaxInFlightApp)
    \/ \E m \in Msgs : fetchPropertiesDone(m)
    \/ \E id \in Ids : handleDelete(id, MaxInFlightApp)
    \/ \E m \in Msgs : handleDeleteDone(m)
    \/ \E id \in Ids : toggleStatus(id, MaxInFlightApp)
    \/ \E m \in Msgs : toggleStatusDone(m)

\* The whole application, the operator waiting for the answer to a request
\* before causing the next one.
Spec == Init /\ [][Next]_vars

\* A full admin has opened one of the three list screens, whose first fetch
\* is in flight.
InitScreen ==
    /\ adminToken = 1
    /\ adminInfo = InfoAdmin
    /\ logins = 1
    /\ path \in {ClientsPath, OwnersPath, PropertiesPath}
    /\ decision = "Render"
    /\ token = 1
    /\ users = <<>>
    /\ loading = TRUE
    /\ selectedUser = NoUser
    /\ drawerOpen = FALSE
    /\ srv = SrvStart(Coll(path))
    /\ net = SetToBag({Request(Coll(path), "list", 0,
                               IF Coll(path) = "property" THEN NoAuth ELSE 1,
                               FALSE, NoRecord)})
    /\ last = NoMsg
    /\ dead = {}
    /\ search = <<>>
    /\ statusFilter = DefaultFilter(path)
    /\ csv = NoCsv

NextScreen ==
    \/ \E m \in Msgs, status \in Statuses, shape \in ListShapes \cup {"users", ""} :
          Serve(m, status, shape)
    \/ \E id \in Ids : ServiceEdit(id)
    \/ fetchUsers(MaxInFlight)
    \/ \E m \in Msgs : fetchUsersDone(m)
    \/ \E id \in Ids : ClientsToggleBlock(id, MaxInFlight)
    \/ \E m \in Msgs : ClientsToggleBlockDone(m)
    \/ fetchOwners(MaxInFlight)
    \/ \E m \in Msgs : fetchOwnersDone(m)
    \/ \E id \in Ids : OwnersToggleBlock(id, MaxInFlight)
    \/ \E m \in Msgs : OwnersToggleBlockDone(m)
    \/ fetchProperties(MaxInFlight)
    \/ \E m \in Msgs : fetchPropertiesDone(m)
    \/ \E id \in Ids : handleDelete(id, MaxInFlight)
    \/ \E m \in Msgs : handleDeleteDone(m)
    \/ \E id \in Ids : toggleStatus(id, MaxInFlight)
    \/ \E m \in Msgs : toggleStatusDone(m)

\* One list screen with requests overlapping: the operator stays on the
\* screen and keeps the drawer closed, up to MaxInFlight requests are in
\* flight together.
SpecScreen == InitScreen /\ [][NextScreen]_vars

-----------------------------------------------------------------------------
\* The table of a list screen over any cached records: the operator types
\* into the search box, picks a status and exports.

SampleNames == {<<"A", "n">>, <<"B", "2">>, <<"O", "\"", ",">>}
SamplePhones == {<<"7", "1">>, Undefined}
SampleAddress ==
    [absent |-> FALSE, line1 |-> <<"L", "\n", "\"">>, city |-> <<"C", ",">>,
     state |-> Undefined, pincode |-> <<"4">>]

\* The users the service may hold: any name and phone, blocked or not, with
\* or without the date and the address.
SampleUsers(coll) ==
    {[SrvUser(coll, id, blocked) EXCEPT
          !.name = name, !.phone = phone,
          !.createdAt = IF full THEN CreatedAt(1) ELSE Undefined,
          !.address = IF full THEN SampleAddress ELSE NoAddress] :
        id \in Ids, name \in SampleNames, phone \in SamplePhones,
        blocked \in BOOLEAN, full \in BOOLEAN}

\* The answers to a refresh: up to MaxRecords users with distinct ids.
SampleLists(coll) ==
    {recs \in UNION {[1 .. n -> SampleUsers(coll)] : n \in 0 .. MaxRecords} :
        \A i, j \in DOMAIN recs : recs[i].id = recs[j].id => i = j}

InitFilter ==
    /\ adminToken = 1
    /\ adminInfo = InfoAdmin
    /\ logins = 1
    /\ path \in {ClientsPath, OwnersPath}
    /\ decision = "Render"
    /\ token = 1
    /\ srv \in SampleLists(Coll(path))
    /\ users = IF path = ClientsPath THEN [i \in DOMAIN srv |-> ToClient(srv[i])]
               ELSE [i \in DOMAIN srv |-> ToOwner(srv[i])]
    /\ loading = FALSE
    /\ selectedUser = NoUser
    /\ drawerOpen = FALSE
    /\ net = EmptyBag
    /\ last = NoMsg
    /\ dead = {}
    /\ search = <<>>
    /\ statusFilter = DefaultFilter(path)
    /\ csv = NoCsv

NextFilter ==
    \/ \E q \in Queries : setSearch(q)
    \/ \E f \in {"all", "active", "blocked", "All", "Active", "Blocked"} : setStatusFilter(f)
    \/ resetFilters
    \/ exportCSV

\* A loaded clients or owners screen with any records in its cache.
SpecFilter == InitFilter /\ [][NextFilter]_vars

InitRemoval == InitScreen /\ path \in {ClientsPath, OwnersPath}

NextRemoval ==
    \/ \E m \in Msgs, status \in Statuses, shape \in {"users", ""} : Serve(m, status, shape)
    \/ \E id \in Ids : ServiceRemove(id)
    \/ fetchUsers(MaxInFlight)
    \/ \E m \in Msgs : fetchUsersDone(m)
    \/ \E id \in Ids : ClientsToggleBlock(id, MaxInFlight)
    \/ \E m \in Msgs : ClientsToggleBlockDone(m)
    \/ fetchOwners(MaxInFlight)
    \/ \E m \in Msgs : fetchOwnersDone(m)
    \/ \E id \in Ids : OwnersToggleBlock(id, MaxInFlight)
    \/ \E m \in Msgs : OwnersToggleBlockDone(m)

\* The clients or the owners screen, the service's collection losing
\* records meanwhile.
SpecRemoval == InitRemoval /\ [][NextRemoval]_vars

-----------------------------------------------------------------------------
\* Properties.

Moderations == {"block", "approve", "disapprove", "delete"}

\* C1: a navigation to a protected route is decided from the route's policy
\* and the stored session alone, as the table says (no token: login; token,
\* restricted agent, route closed to agents: /add-property; else the page),
\* and deciding changes no session data.
TableDecision(hasToken, restricted, allowRestricted) ==
    IF ~hasToken THEN "RedirectToLogin"
    ELSE IF restricted /\ ~allowRestricted THEN "RedirectToRestrictedHome"
    ELSE "Render"

C1_GuardMatchesTable ==
    [][\A p \in ProtectedPaths :
          Navigate(p, MaxInFlightApp) =>
             /\ decision' = TableDecision(adminToken # Null, adminInfo = InfoAgent,
                                          p \in {"/add-property", "/lead-monitoring"})
             /\ decision' = "RedirectToLogin" => path' = LoginPath
             /\ decision' = "RedirectToRestrictedHome" => path' = AgentHome
             /\ decision' = "Render" => path' = p
             /\ adminToken' = adminToken /\ adminInfo' = adminInfo]_vars

C1_Witness ==
    /\ decision = "RedirectToRestrictedHome"
    /\ path = AgentHome
    /\ adminToken # Null /\ adminInfo = InfoAgent

\* C2: the stored token is present exactly when the stored profile is.
C2_TokenIffProfile == (adminToken # Null) <=> (adminInfo # InfoAbsent)

\* C3: a refresh answered with a 401 leaves the list as it was and the
\* session without a token, on each of the three screens.
C3_Refresh401 ==
    (last.kind = "list" /\ last.status = "401") =>
        (users = last.before /\ adminToken = Null)

\* C4: once a screen has handled a 401 for a token, it sends no further
\* request that carries this token.
C4_NoRequestWithDeadToken ==
    [][\A m \in BagToSet(net') :
          (m.owner = "live" /\ m.phase = "req" /\ CopiesIn(m, net') > CopiesIn(m, net))
             => m.bearer \notin dead']_vars

\* C5: at most one moderation request per id is in flight.
ModerationsInFlight(id) ==
    {m \in Msgs : m.owner = "live" /\ m.kind \in Moderations /\ m.id = id}

C5_OneModerationPerId ==
    \A id \in Ids :
       /\ Cardinality(ModerationsInFlight(id)) <= 1
       /\ \A m \in ModerationsInFlight(id) : CopiesIn(m, net) = 1

\* The record r with its moderation field set aside, for comparing the rest.
SansModeration(r) ==
    [f \in DOMAIN r \ {"status", "isBlocked", "isApproved"} |-> r[f]]

\* Only the record with this id differs between the two lists, and only in
\* its moderation field; the order and the other records are the same.
OnlyModerationOf(id, before, after) ==
    /\ Len(after) = Len(before)
    /\ \A i \in DOMAIN before :
          IF before[i].id = id
          THEN SansModeration(after[i]) = SansModeration(before[i])
          ELSE after[i] = before[i]

\* A refresh started by a successful approve/disapprove has been applied.
RefetchApplied == last.kind = "list" /\ last.id # Null /\ last.status = "ok"

\* C6: a successful block/unblock changes only the moderation field of the
\* cached record with the id of the request; a successful approve/disapprove
\* changes no cached record itself and starts a refresh of the whole list.
C6_BlockChangesOnlyModeration ==
    /\ (last.kind = "block" /\ last.status = "ok") =>
           OnlyModerationOf(last.id, last.before, users)
    /\ (last.kind \in {"approve", "disapprove"} /\ last.status = "ok") =>
           /\ users = last.before
           /\ loading
           /\ \E m \in Msgs : m.owner = "live" /\ m.kind = "list" /\ m.id = last.id

C6_Witness ==
    /\ last.kind = "block" /\ last.status = "ok"
    /\ users # last.before
    /\ \E i \in DOMAIN users : users[i].id # last.id /\ users[i].name = Name1(users[i].id)

\* C6 as stated for every moderation: what a successful approve/disapprove
\* brings into the cache also differs from the cache before it only in the
\* moderation field of the record with the id of the request.
C6_ModerationChangesOnlyModeration ==
    /\ (last.kind = "block" /\ last.status = "ok") =>
           OnlyModerationOf(last.id, last.before, users)
    /\ RefetchApplied => OnlyModerationOf(last.id, last.before, users)

\* C7: after a successful block/unblock the cached status of the record is
\* the one the answer reports, whatever the cache held; with the list
\* [1: Active, 2: Blocked] and an answer isBlocked = true for 1, both records
\* are Blocked and both are shown under the filter Blocked.
Blocked(u) == IF "status" \in DOMAIN u THEN u.status = "Blocked" ELSE u.isBlocked

ShownBlocked(us) ==
    IF path = ClientsPath THEN filtered(us, <<>>, "Blocked")
    ELSE filteredOwners(us, <<>>, "blocked")

C7_Scenario(before) ==
    /\ Len(before) = 2
    /\ before[1].id = 1 /\ ~Blocked(before[1])
    /\ before[2].id = 2 /\ Blocked(before[2])
    /\ last.id = 1 /\ last.isBlocked

C7_StatusFromAnswer ==
    (last.kind = "block" /\ last.status = "ok") =>
        /\ \A i \in DOMAIN users :
              users[i].id = last.id => (Blocked(users[i]) <=> last.isBlocked)
        /\ C7_Scenario(last.before) =>
              /\ \A i \in DOMAIN users : Blocked(users[i])
              /\ ShownBlocked(users) = users

C7_Witness ==
    /\ last.kind = "block" /\ last.status = "ok"
    /\ C7_Scenario(last.before)
    /\ Len(ShownBlocked(users)) = 2

\* The answer reports the status the cache already held: two requests for the
\* same record were answered out of order.
C7_WitnessStale ==
    /\ last.kind = "block" /\ last.status = "ok"
    /\ \E i \in DOMAIN last.before :
          /\ last.before[i].id = last.id
          /\ Blocked(last.before[i]) <=> last.isBlocked

\* C8: when the list was refreshed while a block/unblock was in flight, the
\* successful answer is applied to the record as the cache holds it then, not
\* to the copy the click saw.
C8_PatchOnCurrentCache ==
    (/\ last.kind = "block" /\ last.status = "ok"
     /\ HasId(last.before, last.id)
     /\ last.seen # Find(last.before, last.id)) =>
        /\ HasId(users, last.id)
        /\ SansModeration(Find(users, last.id)) = SansModeration(Find(last.before, last.id))
        /\ Blocked(Find(users, last.id)) <=> last.isBlocked

C8_Witness ==
    /\ last.kind = "block" /\ last.status = "ok"
    /\ HasId(users, last.id)
    /\ last.seen.id = last.id
    /\ last.seen.name = Name0(last.id)
    /\ Find(users, last.id).name = Name1(last.id)

\* C9: a moderation request answered with a 401 leaves the session without a
\* token and the list as it was.
C9_Moderation401 ==
    (last.kind \in Moderations /\ last.status = "401") =>
        (adminToken = Null /\ users = last.before)

\* C10: a moderation request that fails without a 401 leaves the list and the
\* session as they were and starts no refresh.
ModerationDone(m) ==
    \/ ClientsToggleBlockDone(m)
    \/ OwnersToggleBlockDone(m)
    \/ handleDeleteDone(m)
    \/ toggleStatusDone(m)

C10_FailureChangesNothing ==
    [][\A m \in BagToSet(net) :
          (/\ m.owner = "live" /\ m.phase = "resp"
           /\ m.kind \in Moderations /\ m.status = "error"
           /\ ModerationDone(m)) =>
              /\ users' = users
              /\ adminToken' = adminToken /\ adminInfo' = adminInfo
              /\ loading' = loading
              /\ net' = Take(net, m)]_vars

C10_Witness ==
    /\ last.kind \in Moderations /\ last.status = "error"
    /\ users = last.before /\ users # <<>>
    /\ ~loading

\* C11: an authorized operation (refresh of the clients or owners, block,
\* approve/disapprove, delete) triggered while no token is stored sends no
\* request and changes neither the list nor the session.
AuthorizedTrigger ==
    \/ fetchUsers(MaxInFlightApp)
    \/ fetchOwners(MaxInFlightApp)
    \/ \E id \in Ids : \/ ClientsToggleBlock(id, MaxInFlightApp)
                       \/ OwnersToggleBlock(id, MaxInFlightApp)
                       \/ handleDelete(id, MaxInFlightApp)
                       \/ toggleStatus(id, MaxInFlightApp)

C11_NoTokenNoRequest ==
    [][(adminToken = Null /\ AuthorizedTrigger) =>
          /\ net' = net
          /\ users' = users
          /\ adminToken' = adminToken /\ adminInfo' = adminInfo]_vars

\* C12: once the stored token is gone (a handled 401, a logout), a
\* navigation to any route that requires a session ends on the login page.
C12_NoTokenEndsAtLogin ==
    [][\A p \in ProtectedPaths :
          (adminToken = Null /\ Navigate(p, MaxInFlightApp)) =>
             /\ decision' = "RedirectToLogin"
             /\ path' = LoginPath]_vars

\* The token went by a handled 401 (only then a profile stays stored without
\* a token) and the navigation after it was sent to the login page.
C12_Witness ==
    /\ adminToken = Null /\ adminInfo # InfoAbsent
    /\ logins > 0
    /\ decision = "RedirectToLogin"
    /\ path = LoginPath

\* C13: with a stored profile that cannot be parsed the guard does not fail
\* and decides a route that requires a session as it does without a token.
C13_MalformedIsNoSession ==
    [][\A p \in ProtectedPaths :
          (adminInfo = InfoMalformed /\ Navigate(p, MaxInFlightApp)) =>
             /\ decision' = GuardDecision(p, Null, InfoAbsent)
             /\ path' = Land(p, Null, InfoAbsent, MaxRedirects)]_vars

\* The answer holds the list where the screen reads it: data.users on the
\* clients and owners screens, one of the places extractList looks at on the
\* listings screen.
Carried(shape) ==
    IF path = PropertiesPath THEN shape \in ListShapes \ {"none", "null"}
    ELSE shape = "users"

\* The cached record u is the record r of a payload.
SameRecord(u, r) ==
    /\ u.id = r.id /\ u.name = r.name
    /\ IF path = PropertiesPath THEN u = r
       ELSE /\ u.email = r.email /\ u.phone = r.phone /\ u.role = r.role
            /\ Blocked(u) <=> r.isBlocked

\* C14: after a successful refresh the list holds exactly the records of the
\* payload in the payload's order, and no record of the list before that the
\* payload does not hold.
C14_RefreshReplaces ==
    (last.kind = "list" /\ last.status = "ok" /\ Carried(last.shape)) =>
        /\ Len(users) = Len(last.payload)
        /\ \A i \in DOMAIN users : SameRecord(users[i], last.payload[i])
        /\ \A i \in DOMAIN last.before :
              ~HasId(last.payload, last.before[i].id) => ~HasId(users, last.before[i].id)

C14_Witness ==
    /\ last.kind = "list" /\ last.status = "ok" /\ Carried(last.shape)
    /\ users # <<>>
    /\ \E i \in DOMAIN last.before : ~HasId(last.payload, last.before[i].id)

\* A refresh continues with the answer m.
RefreshDone(m) == fetchUsersDone(m) \/ fetchOwnersDone(m) \/ fetchPropertiesDone(m)

\* C15: a refresh that fails without a 401 leaves the list and the stored
\* session (token and profile) as they were.
C15_FailedRefreshChangesNothing ==
    [][\A m \in BagToSet(net) :
          (/\ m.owner = "live" /\ m.phase = "resp"
           /\ m.kind = "list" /\ m.status = "error"
           /\ RefreshDone(m)) =>
              /\ users' = users
              /\ adminToken' = adminToken /\ adminInfo' = adminInfo]_vars

C15_Witness ==
    /\ last.kind = "list" /\ last.status = "error"
    /\ users = last.before /\ users # <<>>
    /\ adminToken # Null /\ adminInfo # InfoAbsent

\* The refreshes of the mounted screen that are in flight.
LiveLists(bag) == {m \in BagToSet(bag) : m.owner = "live" /\ m.kind = "list"}
LiveListCount(bag) ==
    LET Sum[S \in SUBSET LiveLists(bag)] ==
            IF S = {} THEN 0
            ELSE LET m == CHOOSE x \in S : TRUE IN CopiesIn(m, bag) + Sum[S \ {m}]
    IN Sum[LiveLists(bag)]

\* The list is the snapshot of the answer handled last.
IsSnapshotOfLast ==
    /\ Len(users) = Len(last.payload)
    /\ \A i \in DOMAIN users : SameRecord(users[i], last.payload[i])

\* C16: refreshes in flight together are all sent and all handled, and when
\* the last of their answers has arrived the list is the snapshot of that
\* answer, in whatever order the requests were sent.
C16_NoneSuppressed ==
    (path = PropertiesPath /\ InFlight < MaxInFlight) => ENABLED fetchProperties(MaxInFlight)

C16_LastArrivalWins ==
    /\ [](C16_NoneSuppressed)
    /\ []((/\ last.kind = "list" /\ last.status = "ok" /\ Carried(last.shape)
           /\ LiveLists(net) = {}) => IsSnapshotOfLast)
    /\ [][(fetchProperties(MaxInFlight) \/ \E m \in BagToSet(net) : RefreshDone(m)) =>
             LiveListCount(net') =
                 LiveListCount(net) + (IF fetchProperties(MaxInFlight) THEN 1 ELSE -1)]_vars

\* Two refreshes were in flight together and both have been answered; the
\* one sent second arrived last.
C16_Witness ==
    /\ last.kind = "list" /\ last.status = "ok" /\ Carried(last.shape)
    /\ last.over
    /\ LiveLists(net) = {}
    /\ users # last.before

\* The refresh sent second has arrived first; the answer to the one sent
\* first, a different snapshot, is still to arrive.
C16_WitnessOvertaken ==
    /\ last.kind = "list" /\ last.status = "ok" /\ Carried(last.shape)
    /\ last.over
    /\ \E m \in LiveLists(net) :
          /\ ~m.over /\ m.phase = "resp" /\ m.status = "ok" /\ Carried(m.shape)
          /\ m.payload # last.payload

\* C18: the service's lists holding each id once, the cached list holds no
\* id twice, however refreshes, block/unblock results and deletes interleave.
UniqueIds(recs) == \A i, j \in DOMAIN recs : recs[i].id = recs[j].id => i = j

C18_NoDuplicateIds ==
    (/\ UniqueIds(srv)
     /\ \A m \in Msgs : UniqueIds(m.payload)) => UniqueIds(users)

C18_Witness ==
    /\ last.kind \in {"block", "delete"} /\ last.status = "ok"
    /\ users # <<>> /\ users # last.before
    /\ \E m \in LiveLists(net) : m.phase = "resp" /\ m.status = "ok" /\ Len(m.payload) = 2

\* C19: a successful delete takes exactly the record with the id out of the
\* list, the other records staying as they were and in their order; a failed
\* delete takes nothing out.
C19_DeleteRemovesOne ==
    (last.kind = "delete") =>
        IF last.status = "ok" /\ HasId(last.before, last.id)
        THEN LET k == CHOOSE i \in DOMAIN last.before : last.before[i].id = last.id IN
             /\ Len(users) = Len(last.before) - 1
             /\ ~HasId(users, last.id)
             /\ \A i \in DOMAIN users :
                   users[i] = IF i < k THEN last.before[i] ELSE last.before[i + 1]
        ELSE users = last.before

C19_Witness ==
    /\ last.kind = "delete" /\ last.status = "ok"
    /\ HasId(last.before, last.id)
    /\ Len(last.before) = 2 /\ Len(users) = 1

C19_WitnessFailed ==
    /\ last.kind = "delete" /\ last.status = "error"
    /\ HasId(users, last.id)

\* C20: no handler sends a request again by itself: the continuation of a
\* failed refresh or moderation sends nothing, and a click on a moderation
\* button puts at most one moderation request in flight.
AnyDone(m) == RefreshDone(m) \/ ModerationDone(m)

ModerationTrigger ==
    \E id \in Ids : \/ ClientsToggleBlock(id, MaxInFlight)
                    \/ OwnersToggleBlock(id, MaxInFlight)
                    \/ handleDelete(id, MaxInFlight)
                    \/ toggleStatus(id, MaxInFlight)

ModerationCount(bag) ==
    LET S0 == {m \in BagToSet(bag) : m.owner = "live" /\ m.kind \in Moderations}
        Sum[S \in SUBSET S0] ==
            IF S = {} THEN 0
            ELSE LET m == CHOOSE x \in S : TRUE IN CopiesIn(m, bag) + Sum[S \ {m}]
    IN Sum[S0]

C20_NoAutomaticRetry ==
    [][/\ \A m \in BagToSet(net) :
             (m.owner = "live" /\ m.phase = "resp" /\ m.status # "ok" /\ AnyDone(m)) =>
                 net' = Take(net, m)
       /\ ModerationCount(net') <=
             ModerationCount(net) + (IF ModerationTrigger THEN 1 ELSE 0)]_vars

C20_Witness ==
    /\ last.kind # "none" /\ last.status # "ok"
    /\ InFlight = 0
    /\ users # <<>>

-----------------------------------------------------------------------------
\* The table: filter and export.

\* a is b with some elements left out, the others in b's order.
IsSubsequence(a, b) ==
    \E f \in [DOMAIN a -> DOMAIN b] :
        /\ \A i, j \in DOMAIN a : i < j => f[i] < f[j]
        /\ \A i \in DOMAIN a : a[i] = b[f[i]]

AnyStatus == {"All", "all"}

\* C21: whatever the cached records, the search text and the status filter,
\* the rows shown are cached records in the cache's order (some left out,
\* none moved, none added); with an empty search text and the any-status
\* option the rows shown are the whole cache.
C21_FilterIsSubsequence ==
    /\ IsSubsequence(Shown, users)
    /\ IdsOf(Shown) \subseteq IdsOf(users)
    /\ (search = <<>> /\ statusFilter \in AnyStatus) => Shown = users

\* Two cached records, a search text and a status picked: the second record
\* alone is shown.
C21_Witness ==
    /\ Len(users) = 2
    /\ search # <<>>
    /\ statusFilter \notin AnyStatus
    /\ Shown = <<users[2]>>

\* Both cached records shown, in the cache's order, under a search text.
C21_WitnessBoth ==
    /\ Len(users) = 2
    /\ search # <<>>
    /\ Shown = users

\* The status predicate of the page at `path` for the option picked.
PassesStatus(u) ==
    IF path = OwnersPath
    THEN \/ statusFilter = "all"
         \/ statusFilter = "active" /\ ~u.isBlocked
         \/ statusFilter = "blocked" /\ u.isBlocked
    ELSE statusFilter = "All" \/ u.status = statusFilter

\* The value of a field as text: a missing field has no text.
FieldText(v) == IF v = Undefined THEN <<>> ELSE v

\* The name, email, phone and role of a record, one after the other.
SearchedText(u) ==
    FieldText(u.name) \o <<" ">> \o FieldText(u.email) \o <<" ">> \o FieldText(u.phone)
        \o <<" ">> \o FieldText(u.role)

IsShown(u) == \E j \in DOMAIN Shown : Shown[j] = u

\* C22: a cached record is shown if and only if it passes the status
\* predicate and the lower-cased text of its name, email, phone and role
\* contains the lower-cased search text (an empty search text matches every
\* record), on the clients screen and on the owners screen alike.
C22_ShownIffMatches ==
    \A i \in DOMAIN users :
        IsShown(users[i]) <=>
            /\ PassesStatus(users[i])
            /\ includes(toLowerCase(SearchedText(users[i])), toLowerCase(search))

\* The same with a missing field read as the text "undefined", as a template
\* literal does.
C22_ShownIffMatchesTemplate ==
    \A i \in DOMAIN users :
        IsShown(users[i]) <=>
            /\ PassesStatus(users[i])
            /\ includes(toLowerCase(Str(users[i].name) \o <<" ">> \o Str(users[i].email)
                                        \o <<" ">> \o Str(users[i].phone) \o <<" ">>
                                        \o Str(users[i].role)),
                        toLowerCase(search))

\* The scenario: the cache holds record 1, active, then record 2, blocked;
\* the search text is "2" and the status picked is Blocked.
C23_Scenario ==
    /\ Len(users) = 2
    /\ users[1].id = 1 /\ ~Blocked(users[1])
    /\ users[2].id = 2 /\ Blocked(users[2])
    /\ search = <<"2">>
    /\ statusFilter \in {"Blocked", "blocked"}

\* C23 as stated: in the scenario record 2 alone is shown.
C23_ScenarioShowsRecord2 == C23_Scenario => Shown = <<users[2]>>

\* C23: in the scenario record 2 alone is shown when its name, email, phone
\* or role contains "2", and no record is shown otherwise: the id of a
\* record is not searched.
C23_ScenarioShowsRecord2IfTextHas2 ==
    C23_Scenario =>
        Shown = IF includes(SearchedText(users[2]), <<"2">>) THEN <<users[2]>> ELSE <<>>

\* The scenario with record 2 shown.
C23_Witness == C23_Scenario /\ Shown = <<users[2]>>

\* The scenario with no record shown.
C23_WitnessEmpty == C23_Scenario /\ Shown = <<>>

\* A reader of comma-separated text (RFC 4180): fields are separated by
\* commas and records by line breaks; a field in double quotes may hold
\* commas, line breaks and, written twice, double quotes.
ReaderStart ==
    [mode |-> "start", field |-> <<>>, row |-> <<>>, rows |-> <<>>, allQuoted |-> TRUE,
     wellFormed |-> TRUE]

EndField(st) == [st EXCEPT !.mode = "start", !.field = <<>>, !.row = @ \o <<st.field>>]
EndRow(st) ==
    [st EXCEPT !.mode = "start", !.field = <<>>, !.row = <<>>,
               !.rows = @ \o <<st.row \o <<st.field>>>>]

Read(st, c) ==
    CASE st.mode = "quoted" ->
            IF c = "\"" THEN [st EXCEPT !.mode = "closed"]
            ELSE [st EXCEPT !.field = @ \o <<c>>]
      [] st.mode = "closed" /\ c = "\"" -> [st EXCEPT !.mode = "quoted", !.field = @ \o <<c>>]
      [] st.mode = "start" /\ c = "\"" -> [st EXCEPT !.mode = "quoted"]
      [] c = "," -> EndField([st EXCEPT !.allQuoted = @ /\ st.mode = "closed"])
      [] c = "\n" -> EndRow([st EXCEPT !.allQuoted = @ /\ st.mode = "closed"])
      [] OTHER -> [st EXCEPT !.mode = "bare", !.field = @ \o <<c>>, !.allQuoted = FALSE,
                             !.wellFormed = @ /\ st.mode # "closed" /\ c # "\""]

\* The reader's state after the characters lo .. hi of the text, read one
\* after the other from the state st.
RECURSIVE ReadRange(_, _, _, _)
ReadRange(st, text, lo, hi) ==
    IF st.mode = "" \/ lo > hi THEN st
    ELSE IF lo = hi THEN Read(st, text[lo])
    ELSE ReadRange(ReadRange(st, text, lo, (lo + hi) \div 2), text, (lo + hi) \div 2 + 1, hi)

\* The records read from a text; a line break at the very end starts no record.
ParseCSV(text) ==
    LET st == ReadRange(ReaderStart, text, 1, Len(text))
    IN IF st.mode = "start" /\ st.row = <<>> THEN st
       ELSE EndRow([st EXCEPT !.allQuoted = @ /\ st.mode = "closed",
                              !.wellFormed = @ /\ st.mode # "quoted"])

\* The ten columns of the export.
Columns ==
    <<<<"N", "a", "m", "e">>,
      <<"E", "m", "a", "i", "l">>,
      <<"P", "h", "o", "n", "e">>,
      <<"R", "o", "l", "e">>,
      <<"S", "t", "a", "t", "u", "s">>,
      <<"J", "o", "i", "n", "e", "d", " ", "D", "a", "t", "e">>,
      <<"A", "d", "d", "r", "e", "s", "s", " ", "L", "i", "n", "e", " ", "1">>,
      <<"C", "i", "t", "y">>,
      <<"S", "t", "a", "t", "e">>,
      <<"P", "i", "n", "c", "o", "d", "e">>>>

\* The cells of a shown record as texts: String(c).
TextCells(u) == [c \in DOMAIN Cells(u) |-> Str(Cells(u)[c])]

\* C24: the exported text reads as one header row with the ten columns Name,
\* Email, Phone, Role, Status, Joined Date, Address Line 1, City, State,
\* Pincode, followed by one row per shown record in the table's order: it has
\* one row more than the table, and no row for a record the filter hides.
C24_HeaderThenShownRows ==
    csv # NoCsv =>
        LET rows == ParseCSV(csv).rows
        IN /\ Len(rows) = Len(Shown) + 1
           /\ rows[1] = Columns
           /\ \A i \in DOMAIN Shown : rows[i + 1] = TextCells(Shown[i])

\* An export made while the filter hides one of two cached records.
C24_Witness ==
    /\ csv # NoCsv
    /\ Len(users) = 2
    /\ Len(Shown) = 1
    /\ Len(ParseCSV(csv).rows) = 2

\* C25: every field of the exported text is in double quotes, each double
\* quote of a value written twice, so that a reader of comma-separated text
\* gets back the value of every field of every exported record, commas,
\* quotes and line breaks included; the text does not end with a line break.
C25_QuotedRoundTrip ==
    csv # NoCsv =>
        LET read == ParseCSV(csv)
        IN /\ read.wellFormed
           /\ read.allQuoted
           /\ read.rows = <<Columns>> \o [i \in DOMAIN Shown |-> TextCells(Shown[i])]
           /\ csv[Len(csv)] # "\n"

\* An export of a record whose name holds a double quote and a comma and
\* whose address holds a line break.
C25_Witness ==
    /\ csv # NoCsv
    /\ \E i \in DOMAIN Shown :
          /\ includes(Shown[i].name, <<"\"">>)
          /\ includes(Shown[i].name, <<",">>)
          /\ includes(Cells(Shown[i])[7], <<"\n">>)

-----------------------------------------------------------------------------
\* Moderation results and refreshes out of step.

\* The answer just handled is a block/unblock success for an id the list no
\* longer held.
C26_TargetGone ==
    /\ last.kind = "block"
    /\ last.status = "ok"
    /\ ~HasId(last.before, last.id)

\* C26: a block/unblock success for an id the list no longer holds (a
\* refresh took the record away meanwhile) adds no record: the list holds
\* the same ids after the success as before it.
C26_SuccessAddsNoRecord == C26_TargetGone => IdsOf(users) = IdsOf(last.before)

\* Such a success was handled while the list held the other record.
C26_Witness == C26_TargetGone /\ users # <<>> /\ users = last.before

\* The moderation status of a record: blocked for a user or an owner,
\* approved for a listing.
ModerationOf(r) ==
    IF "isApproved" \in DOMAIN r THEN r.isApproved ELSE Blocked(r)

\* The cached record u is as the service has it: held, with the same
\* moderation status.
AgreesWithService(u) ==
    /\ HasId(srv, u.id)
    /\ ModerationOf(u) = ModerationOf(Find(srv, u.id))

\* C27 in full: whenever no request is in flight, every cached record has the
\* moderation status the service has for its id, and no cached record is one
\* the service has deleted; in particular the answer to a refresh that the
\* service read before it confirmed a moderation or a delete does not undo
\* the confirmed result in the list.
C27_CacheAgreesWhenIdle ==
    InFlight = 0 => \A i \in DOMAIN users : AgreesWithService(users[i])

\* C27, for the answer to a refresh: when a refresh has just put the
\* service's answer into the list and no request is in flight, every cached
\* record is held by the service with the same moderation status.
C27_RefreshKeepsConfirmed ==
    (InFlight = 0 /\ last.kind = "list" /\ last.status = "ok" /\ Carried(last.shape)) =>
        \A i \in DOMAIN users : AgreesWithService(users[i])

-----------------------------------------------------------------------------
\* The drawer, the loading flag, the redirects.

\* C28: on the clients screen, whenever the open drawer holds a user whose
\* id is in the list, the drawer shows the status the list has for that
\* user, whatever the order of openings of the drawer, refreshes and
\* block/unblock answers.
C28_DrawerAgreesWithList ==
    (/\ path = ClientsPath
     /\ drawerOpen
     /\ selectedUser # NoUser
     /\ HasId(users, selectedUser.id)) =>
        selectedUser.status = Find(users, selectedUser.id).status

\* C29: whenever no refresh of the mounted screen is in flight, the screen
\* is not loading: a refresh that ends with a success, a 401, another
\* failure, an answer without a list or a missing token leaves the flag
\* cleared, also when refreshes overlapped.
C29_IdleMeansNotLoading == LiveLists(net) = {} => ~loading

\* The last of two overlapping refreshes has ended.
C29_Witness ==
    /\ last.kind = "list"
    /\ last.over
    /\ LiveLists(net) = {}
    /\ ~loading

\* A refresh has ended with a 401.
C29_Witness401 ==
    /\ last.kind = "list"
    /\ last.status = "401"
    /\ LiveLists(net) = {}
    /\ ~loading

\* C30: whatever is stored for the session (no token; a token with a full
\* admin, a restricted agent, an unreadable or no profile), a navigation to
\* any path, unknown paths included, ends on a page that renders after at
\* most two redirects; the login page renders for everybody and
\* /add-property renders for a restricted agent.
C30_NavigationLands ==
    /\ \A p \in Paths :
          LET page == Land(p, adminToken, adminInfo, 2)
          IN /\ page # "loop"
             /\ RouteElement(page, adminToken, adminInfo) = Render
    /\ RouteElement(LoginPath, adminToken, adminInfo) = Render
    /\ (Truthy(adminToken) /\ adminInfo = InfoAgent) =>
          RouteElement(AgentHome, adminToken, adminInfo) = Render

\* A restricted agent asked for an unknown path and was sent on to /dashboard
\* and from there to /add-property.
C30_Witness ==
    /\ Truthy(adminToken) /\ adminInfo = InfoAgent
    /\ decision = "none"
    /\ path = AgentHome
    /\ Land(UnknownPath, adminToken, adminInfo, 1) = "loop"

\* Without a token an unknown path ended on the login page.
C30_WitnessNoToken ==
    /\ adminToken = Null
    /\ logins > 0
    /\ decision = "none"
    /\ path = LoginPath
    /\ Land(UnknownPath, adminToken, adminInfo, 2) = LoginPath

====
